---- MODULE Spec2Model ----
(***************************************************************************)
(* Model of Nas-Everything-search (src/main.go): the sql.db store, the     *)
(* scanAndSave rebuild transaction, the startup sequence of main, the      *)
(* daily cron job and the /get handler.                                    *)
(*                                                                         *)
(* Strings that the program takes apart (file names, search keys) are      *)
(* sequences of one-character strings; the others are TLA+ strings.        *)
(***************************************************************************)
EXTENDS Integers, Sequences, FiniteSets, TLC

\* ------------------------------------------------------------------ bounds
\* scanAndSave goroutines that may exist at once in the model
MaxScans == 2
\* regular files of the largest tree under the configured path
MaxTree == 3
\* longest file name and search term of the search specification
MaxLen == 2

\* HTTP status codes used by the handler
StatusOK == 200
StatusBadRequest == 400
StatusInternalServerError == 500

\* ------------------------------------------------------------ file system
\* The i-th regular file under the configured path, in filepath.Walk's
\* lexical order: two files per directory.
DirOf(i) == <<"data", (i + 1) \div 2>>
NameOf(i) == IF i % 2 = 1 THEN <<"a">> ELSE <<"b">>
Entry(i) ==
    [dir |-> DirOf(i), name |-> NameOf(i), size |-> i,
     mtime |-> [sec |-> i, nsec |-> IF i % 2 = 0 THEN 5 ELSE 0],
     kind |-> "file", err |-> FALSE]
\* The same path as an entry whose metadata cannot be read (the callback gets
\* err != nil), and as a directory.
Unreadable(e) == [e EXCEPT !.err = TRUE]
AsDir(e) == [e EXCEPT !.kind = "dir"]

\* if err != nil || info.IsDir() { return nil }
SkipEntryDirOnly(e) == e.kind = "dir"
SkipEntry(e) == e.err \/ e.kind = "dir"

\* The trees the configured path may hold: the first n files, n = 0..MaxTree.
Trees == { {Entry(i) : i \in 1..n} : n \in 0..MaxTree }

\* info.ModTime().Format(time.RFC3339): whole seconds, the fraction dropped.
FormatRFC3339(t) == [rfc3339 |-> t.sec]

\* filepath.Walk calls the callback on the entries in lexical order.
RECURSIVE WalkFrom(_, _)
WalkFrom(tree, i) ==
    IF i > Cardinality(tree) THEN << >>
    ELSE <<Entry(i)>> \o WalkFrom(tree, i + 1)
WalkFiles(tree) == WalkFrom(tree, 1)

\* ------------------------------------------------------------------ store
EmptyDB == [paths |-> {}, files |-> {}]

MaxOf(S) == CHOOSE m \in S : \A x \in S : x <= m
\* INTEGER PRIMARY KEY: the rowid of a new row is one more than the largest.
NextId(rows) == IF rows = {} THEN 1 ELSE MaxOf({r.id : r \in rows}) + 1

\* INSERT OR IGNORE INTO paths (path) VALUES (?) RETURNING id
PathKnown(db, dir) == \E p \in db.paths : p.path = dir
InsertPath(db, dir) ==
    [db EXCEPT !.paths = @ \cup {[id |-> NextId(db.paths), path |-> dir]}]

\* INSERT INTO files (path_id, filename, size, create_time) VALUES (?,?,?,?)
InsertFileUniqueName(db, pathID, e) ==
    IF \E f \in db.files : f.filename = e.name THEN db
    ELSE [db EXCEPT !.files = @ \cup
            {[id |-> NextId(db.files), path_id |-> pathID, filename |-> e.name,
              size |-> e.size, create_time |-> FormatRFC3339(e.mtime)]}]
InsertFile(db, pathID, e) ==
    [db EXCEPT !.files = @ \cup
        {[id |-> NextId(db.files), path_id |-> pathID, filename |-> e.name,
          size |-> e.size, create_time |-> FormatRFC3339(e.mtime)]}]

\* pathID, ok := pathCache[dir] and pathCache[dir] = pathID
CachePutNext(cache, dir, pathID) == cache @@ (dir :> pathID + 1)
CachePut(cache, dir, pathID) == cache @@ (dir :> pathID)

\* tx.Exec("DELETE FROM files; DELETE FROM paths"): both tables are cleared
\* in the transaction's working copy, the committed content is untouched.
ExecDeleteFilesOnly(committed) ==
    [committed |-> committed, work |-> [committed EXCEPT !.files = {}]]
ExecDeletePathsOnly(committed) ==
    [committed |-> committed, work |-> [committed EXCEPT !.paths = {}]]
ExecDeleteAutocommit(committed) == [committed |-> EmptyDB, work |-> EmptyDB]
ExecDelete(committed) == [committed |-> committed, work |-> EmptyDB]

\* tx.Rollback(): the working copy is dropped.
RollbackKeepsWork(committed, work) == work
Rollback(committed, work) == committed

\* tx.Commit(): the working copy becomes the committed content.
Commit(committed, work) == work

\* A file record whose directory record is missing.
Orphans(db) == { f \in db.files : ~ \E p \in db.paths : p.id = f.path_id }

\* ----------------------------------------------------------------- search
Lower(c) == IF c = "A" THEN "a" ELSE IF c = "B" THEN "b" ELSE c

\* SQLite's LIKE: % matches any run of characters, _ any one character,
\* letters match without regard to ASCII case.
RECURSIVE LikeMatch(_, _)
LikeMatch(p, s) ==
    IF p = << >> THEN s = << >>
    ELSE IF Head(p) = "%"
        THEN LikeMatch(Tail(p), s) \/ (s # << >> /\ LikeMatch(p, Tail(s)))
    ELSE IF s = << >> THEN FALSE
    ELSE IF Head(p) = "_" THEN LikeMatch(Tail(p), Tail(s))
    ELSE Lower(Head(p)) = Lower(Head(s)) /\ LikeMatch(Tail(p), Tail(s))

\* "%"+key+"%"
LikePattern(key) == <<"%">> \o key \o <<"%">>

\* SELECT p.path, f.filename, f.size, f.create_time FROM files f
\* JOIN paths p ON f.path_id = p.id WHERE f.filename LIKE ?
SelectFiles(db, key) ==
    { [rowid |-> f.id, path |-> p.path, filename |-> f.filename,
       size |-> f.size, create_time |-> f.create_time] :
        <<f, p>> \in { fp \in db.files \X db.paths :
                          /\ fp[1].path_id = fp[2].id
                          /\ LikeMatch(LikePattern(key), fp[1].filename) } }

\* rows.Scan(&fi.Path, &fi.FileName, &fi.Size, &createTime)
ScanRow(row) ==
    [path |-> row.path, filename |-> row.filename, size |-> row.size,
     create_time |-> row.create_time]

\* json.NewEncoder(w).Encode(files): a nil slice is encoded as null.
JsonEncode(files) ==
    IF files = << >> THEN [json |-> "null", items |-> << >>]
    ELSE [json |-> "array", items |-> files]

\* r.URL.Query().Get(name): url.Values maps a name to the list of its values;
\* Get gives the first one, or the empty value when there is none.
QueryGet(vals, name, zero) == IF vals[name] = << >> THEN zero ELSE vals[name][1]

\* key == "" || queryType == ""
MissingParamAnd(key, queryType) == key = << >> /\ queryType = ""
MissingParam(key, queryType) == key = << >> \/ queryType = ""

\* switch queryType { case "file": ... default: 400 }
KnownType(queryType) == queryType = "file"

\* What the handler's own connection reads: committed content only.
ReadViewDirty(committed, work) == work
ReadView(committed, work) == committed

\* PRAGMA journal_mode = WAL: a reader is not held up by the transaction
\* that holds the write lock.
ReaderBlockedByWriter(w) == w # 0
ReaderBlocked(w) == FALSE

\* go scanAndSave(...); <-done: main waits for the first scan before it
\* starts the cron scheduler and the HTTP server.
AfterSpawnNoWait == "serving"
AfterSpawn == "init"

\* Both callers of scanAndSave receive from done right after starting it.
ReceivingStartupOnly(caller) == caller = "startup"
Receiving(caller) == caller \in {"startup", "cron"}

\* os.IsNotExist(os.Stat(dbPath)): the first scan runs when sql.db is absent.
StartupAlwaysScans(exists) == TRUE
StartupNeedsScan(exists) == ~exists

\* ------------------------------------------------------------------ state
VARIABLES
    dbFile,     \* sql.db exists beside the executable
    store,      \* committed content of sql.db: [paths, files]
    hasGen,     \* a rebuild has committed into this sql.db
    gen,        \* what the last commit (or initDB) left in sql.db
    last,       \* the Walk of the last committed rebuild
    proc,       \* main: "down", "init" (blocked on <-done), "serving"
    exit,       \* how the last process ended
    life,       \* facts about the running process since its start
    scan,       \* the scanAndSave goroutines
    writer,     \* the goroutine whose transaction holds the write lock, or 0
    q           \* the /get handler and its response

vars == <<dbFile, store, hasGen, gen, last, proc, exit, life, scan, writer, q>>

Slots == 1..MaxScans

EmptyCache == [d \in {} |-> 0]
IdleScan ==
    [pc |-> "idle", caller |-> "none", cache |-> EmptyCache, todo |-> << >>,
     work |-> EmptyDB, pre |-> EmptyDB, n |-> 0, walk |-> << >>]
\* go scanAndSave(configPath, dbPath, done)
NewScan(caller) == [IdleScan EXCEPT !.pc = "begin", !.caller = caller]

NoExit ==
    [cause |-> "none", caller |-> "none", pre |-> EmptyDB, inTx |-> FALSE, n |-> 0]
\* rescan: the last commit crawled the tree of the commit before it, in
\* another order.
NoLast == [walk |-> << >>, rescan |-> FALSE]
NoLife == [existed |-> FALSE, triggered |-> FALSE, startStore |-> EmptyDB]

NoRequest == [key |-> << >>, type |-> << >>]
NoBody == [json |-> "none", items |-> << >>]
ErrorBody == [json |-> "text", items |-> << >>]
IdleQ ==
    [pc |-> "idle", req |-> NoRequest, key |-> << >>, qtype |-> "", cursor |-> {},
     files |-> << >>, status |-> 0, body |-> NoBody, failed |-> FALSE,
     snap |-> EmptyDB, busy |-> FALSE]

\* The requests of the main specification and those of the search one.
Requests(K, T) ==
    [key : {<< >>} \cup {<<k>> : k \in K}, type : {<< >>} \cup {<<t>> : t \in T}]
MainRequests == Requests({<< >>, <<"a">>}, {"", "file", "dir"})

Init ==
    /\ dbFile = FALSE
    /\ store = EmptyDB
    /\ hasGen = FALSE
    /\ gen = EmptyDB
    /\ last = NoLast
    /\ proc = "down"
    /\ exit = NoExit
    /\ life = NoLife
    /\ scan = [s \in Slots |-> IdleScan]
    /\ writer = 0
    /\ q = IdleQ

\* The process ends (log.Fatal, or a kill): every goroutine is gone and the
\* open transaction, never committed, is discarded by the store.
ProcessExit(cause, caller, pre, inTx, n) ==
    /\ proc' = "down"
    /\ exit' = [cause |-> cause, caller |-> caller, pre |-> pre, inTx |-> inTx, n |-> n]
    /\ life' = NoLife
    /\ scan' = [s \in Slots |-> IdleScan]
    /\ writer' = 0
    /\ q' = IdleQ

\* --------------------------------------------------------------- startup
\* main up to the cron scheduler and the HTTP server: initDB and the first
\* scan when sql.db is absent, otherwise straight to serving.
Start(ok) ==
    /\ proc = "down"
    /\ IF StartupNeedsScan(dbFile)
        THEN IF ok
            THEN /\ dbFile' = TRUE
                 /\ store' = IF dbFile THEN store ELSE EmptyDB
                 /\ scan' = [scan EXCEPT ![1] = NewScan("startup")]
                 /\ proc' = AfterSpawn
                 /\ exit' = NoExit
                 /\ life' = [existed |-> dbFile, triggered |-> FALSE,
                             startStore |-> IF dbFile THEN store ELSE EmptyDB]
                 /\ UNCHANGED <<hasGen, gen, last, writer, q>>
            ELSE /\ exit' = [NoExit EXCEPT !.cause = "initdb"]
                 /\ UNCHANGED <<dbFile, store, hasGen, gen, last, proc, life, scan, writer, q>>
        ELSE /\ ok
             /\ proc' = "serving"
             /\ exit' = NoExit
             /\ life' = [existed |-> TRUE, triggered |-> FALSE, startStore |-> store]
             /\ UNCHANGED <<dbFile, store, hasGen, gen, last, scan, writer, q>>

\* The process is killed or the machine stops.
Crash ==
    /\ proc # "down"
    /\ ProcessExit("crash", "none",
                   IF writer # 0 THEN scan[writer].pre ELSE store,
                   writer # 0,
                   IF writer # 0 THEN scan[writer].n ELSE 0)
    /\ UNCHANGED <<dbFile, store, hasGen, gen, last>>

\* ------------------------------------------------------------- scheduler
\* The cron entry fires: cron runs the job in a goroutine of its own, and the
\* job starts scanAndSave and waits on done.
FreeSlots == { s \in Slots : scan[s].pc = "idle" }
CronTrigger ==
    /\ proc = "serving"
    /\ FreeSlots # {}
    /\ LET s == CHOOSE x \in FreeSlots : \A y \in FreeSlots : x <= y
       IN scan' = [scan EXCEPT ![s] = NewScan("cron")]
    /\ life' = [NoLife EXCEPT !.triggered = TRUE]
    /\ UNCHANGED <<dbFile, store, hasGen, gen, last, proc, exit, writer, q>>

\* ----------------------------------------------------------- scanAndSave
\* log.Fatal in scanAndSave goroutine s.
ScanFatal(s, cause, inTx) ==
    ProcessExit(cause, scan[s].caller,
                IF writer = s THEN scan[s].pre ELSE store,
                inTx, scan[s].n)

\* scanAndSave up to the second Walk.  sql.Open and db.Begin() (a deferred
\* BEGIN) take no lock; log.Fatal(err) when db.Begin() fails ("beginfail").
\* tx.Exec("DELETE FROM files; DELETE FROM paths"): the transaction's first
\* write takes the write lock.  out is "ok", "fail" (the first statement
\* fails: another transaction holds the lock, or the write fails) or "fail2"
\* (the second statement fails after the first cleared files); a failure is
\* followed by tx.Rollback(); log.Fatal(err).  The counting Walk that follows
\* touches nothing shared; the second Walk then calls the callback on the
\* entries of walk, what is now under the configured path.
ScanDelete(s, out, walk) ==
    /\ scan[s].pc = "begin"
    /\ CASE out = "beginfail" ->
            /\ ScanFatal(s, "begin", FALSE)
            /\ UNCHANGED store
         [] out = "ok" ->
            /\ writer = 0
            /\ writer' = s
            /\ store' = ExecDelete(store).committed
            /\ scan' = [scan EXCEPT ![s].pc = "walk",
                                    ![s].pre = store,
                                    ![s].work = ExecDelete(store).work,
                                    ![s].cache = EmptyCache,
                                    ![s].todo = walk,
                                    ![s].walk = walk]
            /\ UNCHANGED <<proc, exit, life, q>>
         [] out = "fail" ->
            /\ ScanFatal(s, "rebuild", FALSE)
            /\ UNCHANGED store
         [] out = "fail2" ->
            /\ writer = 0
            /\ store' = Rollback(store, [store EXCEPT !.files = {}])
            /\ ScanFatal(s, "rebuild", TRUE)
    /\ UNCHANGED <<dbFile, hasGen, gen, last>>

\* The Walk callback on one entry: it returns at once on an entry that cannot
\* be read and on a directory; otherwise the directory id from pathCache or
\* from an insert into paths, then the insert into files.  out is "ok",
\* "pathfail" (the paths insert fails) or "filefail" (the files insert fails);
\* a failure ends the Walk, and then tx.Rollback(); log.Fatal(err).
ScanVisit(s, out) ==
    /\ scan[s].pc = "walk"
    /\ writer = s
    /\ scan[s].todo # << >>
    /\ LET e == Head(scan[s].todo)
           dir == e.dir
           cached == dir \in DOMAIN scan[s].cache
           ignored == ~cached /\ PathKnown(scan[s].work, dir)
           pathID == IF cached THEN scan[s].cache[dir] ELSE NextId(scan[s].work.paths)
           work1 == IF cached THEN scan[s].work ELSE InsertPath(scan[s].work, dir)
           work2 == InsertFile(work1, pathID, e)
       IN  CASE SkipEntry(e) ->
                /\ out = "ok"
                /\ scan' = [scan EXCEPT ![s].todo = Tail(@)]
                /\ UNCHANGED <<store, proc, exit, life, writer, q>>
             [] out = "ok" ->
                /\ ~ignored
                /\ scan' = [scan EXCEPT ![s].work = work2,
                                        ![s].cache = IF cached THEN @ ELSE CachePut(@, dir, pathID),
                                        ![s].todo = Tail(@),
                                        ![s].n = @ + 1]
                /\ UNCHANGED <<store, proc, exit, life, writer, q>>
             [] out = "pathfail" ->
                /\ ~cached
                /\ store' = Rollback(store, scan[s].work)
                /\ ScanFatal(s, "rebuild", TRUE)
             [] out = "filefail" ->
                /\ ~ignored
                /\ store' = Rollback(store, work1)
                /\ ScanFatal(s, "rebuild", TRUE)
    /\ UNCHANGED <<dbFile, hasGen, gen, last>>

Range(seq) == { seq[i] : i \in DOMAIN seq }

\* tx.Commit() once the Walk has ended; log.Fatal(err) when it fails.
ScanCommit(s, ok) ==
    /\ scan[s].pc = "walk"
    /\ writer = s
    /\ scan[s].todo = << >>
    /\ IF ok
        THEN /\ store' = Commit(store, scan[s].work)
             /\ hasGen' = TRUE
             /\ gen' = Commit(store, scan[s].work)
             /\ last' = [walk |-> scan[s].walk,
                         rescan |-> /\ hasGen
                                    /\ Range(scan[s].walk) = Range(last.walk)
                                    /\ scan[s].walk # last.walk]
             /\ writer' = 0
             /\ scan' = [scan EXCEPT ![s].pc = "send", ![s].pre = EmptyDB,
                                     ![s].work = EmptyDB, ![s].cache = EmptyCache,
                                     ![s].walk = << >>]
             /\ UNCHANGED <<proc, exit, life, q>>
        ELSE /\ ScanFatal(s, "commit", TRUE)
             /\ UNCHANGED <<store, hasGen, gen, last>>
    /\ UNCHANGED dbFile

\* done <- true meets the caller's <-done: main goes on to start the cron
\* scheduler and the HTTP server, a cron job returns.
ScanDone(s) ==
    /\ scan[s].pc = "send"
    /\ Receiving(scan[s].caller)
    /\ scan' = [scan EXCEPT ![s] = IdleScan]
    /\ proc' = IF scan[s].caller = "startup" THEN "serving" ELSE proc
    /\ UNCHANGED <<dbFile, store, hasGen, gen, last, exit, life, writer, q>>

\* ------------------------------------------------------------ /get handler
\* What an uncommitted transaction has written so far, were it visible.
Uncommitted == IF writer = 0 THEN store ELSE scan[writer].work

Respond(status, body, failed) ==
    [q EXCEPT !.pc = "responded", !.status = status, !.body = body,
              !.failed = failed, !.cursor = {}]

\* The handler up to db.Query: the two parameters are read and checked, the
\* query type is switched on.  (sql.Open only records the driver and the
\* file name; it does not touch the file.)
QueryRecv(vals) ==
    /\ proc = "serving"
    /\ q.pc = "idle"
    /\ LET key == QueryGet(vals, "key", << >>)
           queryType == QueryGet(vals, "type", "")
           got == [q EXCEPT !.req = vals, !.key = key, !.qtype = queryType]
       IN  q' = IF MissingParam(key, queryType) \/ ~KnownType(queryType)
                  THEN [got EXCEPT !.pc = "responded", !.status = StatusBadRequest,
                                   !.body = ErrorBody]
                  ELSE [got EXCEPT !.pc = "query"]
    /\ UNCHANGED <<dbFile, store, hasGen, gen, last, proc, exit, life, scan, writer>>

\* db.Query(query, "%"+key+"%"): the statement reads one snapshot of the
\* committed content, or fails and the handler answers 500.  busy notes that
\* a rebuild held the write lock when the statement started.
QueryIssue(ok) ==
    /\ q.pc = "query"
    /\ ok => ~ReaderBlocked(writer)
    /\ q' = IF ok
              THEN [q EXCEPT !.pc = "rows", !.snap = gen, !.busy = writer # 0,
                             !.cursor = SelectFiles(ReadView(store, Uncommitted), q.key)]
              ELSE Respond(StatusInternalServerError, ErrorBody, TRUE)
    /\ UNCHANGED <<dbFile, store, hasGen, gen, last, proc, exit, life, scan, writer>>

\* One turn of for rows.Next() { rows.Scan(...); files = append(files, fi) }
\* and what follows the loop.  out is "row" (a row is scanned and appended),
\* "scanfail" (rows.Scan fails: 500), "eof" (no row is left) or "nexterr"
\* (rows.Next() returns false on a read error; rows.Err() is never looked
\* at, so the loop ends as on "eof" and files is encoded).
QueryNext(out) ==
    /\ q.pc = "rows"
    /\ CASE out = "row" ->
            \E row \in q.cursor :
                q' = [q EXCEPT !.cursor = @ \ {row},
                               !.files = Append(@, ScanRow(row))]
         [] out = "scanfail" ->
            /\ q.cursor # {}
            /\ q' = Respond(StatusInternalServerError, ErrorBody, TRUE)
         [] out = "eof" ->
            /\ q.cursor = {}
            /\ q' = Respond(StatusOK, JsonEncode(q.files), FALSE)
         [] out = "nexterr" ->
            q' = Respond(StatusOK, JsonEncode(q.files), TRUE)
    /\ UNCHANGED <<dbFile, store, hasGen, gen, last, proc, exit, life, scan, writer>>

\* The response has been sent; the handler is ready for the next request.
QueryDone ==
    /\ q.pc = "responded"
    /\ q' = IdleQ
    /\ UNCHANGED <<dbFile, store, hasGen, gen, last, proc, exit, life, scan, writer>>

\* ---------------------------------------------------------- specifications
Next ==
    \/ \E ok \in BOOLEAN : Start(ok)
    \/ Crash
    \/ CronTrigger
    \/ \E s \in Slots, out \in {"beginfail", "ok", "fail", "fail2"}, tree \in Trees :
            ScanDelete(s, out, WalkFiles(tree))
    \/ \E s \in Slots, out \in {"ok", "pathfail", "filefail"} : ScanVisit(s, out)
    \/ \E s \in Slots, ok \in BOOLEAN : ScanCommit(s, ok)
    \/ \E s \in Slots : ScanDone(s)
    \/ \E vals \in MainRequests : QueryRecv(vals)
    \/ \E ok \in BOOLEAN : QueryIssue(ok)
    \/ \E out \in {"row", "scanfail", "eof", "nexterr"} : QueryNext(out)
    \/ QueryDone

Spec == Init /\ [][Next]_vars

\* The search specification: a serving process whose committed generation
\* holds one file of any name, and requests with any search term.
Chars == {"a", "A", "%", "_"}
Names(n) == UNION { [1..k -> Chars] : k \in 0..n }
NamedEntry(F) == [Entry(1) EXCEPT !.name = F]
SearchRequests == Requests(Names(MaxLen), {"file"})

InitSearch ==
    \E F \in Names(MaxLen) \ {<< >>} :
        /\ dbFile = TRUE
        /\ store = InsertFile(InsertPath(EmptyDB, DirOf(1)), 1, NamedEntry(F))
        /\ hasGen = TRUE
        /\ gen = store
        /\ last = [NoLast EXCEPT !.walk = <<NamedEntry(F)>>]
        /\ proc = "serving"
        /\ exit = NoExit
        /\ life = [existed |-> TRUE, triggered |-> FALSE, startStore |-> store]
        /\ scan = [s \in Slots |-> IdleScan]
        /\ writer = 0
        /\ q = IdleQ

NextSearch ==
    \/ \E vals \in SearchRequests : QueryRecv(vals)
    \/ \E ok \in BOOLEAN : QueryIssue(ok)
    \/ \E out \in {"row", "scanfail", "eof", "nexterr"} : QueryNext(out)
    \/ QueryDone

SpecSearch == InitSearch /\ [][NextSearch]_vars

\* ------------------------------------------------------------------ claims
\* ------------------------------------------------------------ crawl order
\* The rebuild alone, over a tree that does not change while the process
\* runs, and over every Walk the callback can be given on it: the files of
\* the tree in any order, and a tree in lexical order where each entry is a
\* regular file, an entry whose metadata cannot be read, or a directory.
Perms(S) ==
    { w \in [1..Cardinality(S) -> S] : \A i, j \in DOMAIN w : w[i] = w[j] => i = j }
Marks == {"file", "unreadable", "dir"}
Mark(e, m) == IF m = "unreadable" THEN Unreadable(e)
              ELSE IF m = "dir" THEN AsDir(e) ELSE e
CrawlWalks ==
    UNION { Perms(tree) : tree \in Trees }
    \cup UNION { { [i \in 1..n |-> Mark(Entry(i), m[i])] : m \in [1..n -> Marks] } :
                   n \in 0..MaxTree }

\* The tree is the one the last committed rebuild crawled.
SameTree(walk) == hasGen => Range(walk) = Range(last.walk)

\* A process started without sql.db: initDB has made the empty tables and the
\* first scan is spawned.
InitCrawl ==
    /\ dbFile = TRUE
    /\ store = EmptyDB
    /\ hasGen = FALSE
    /\ gen = EmptyDB
    /\ last = NoLast
    /\ proc = AfterSpawn
    /\ exit = NoExit
    /\ life = NoLife
    /\ scan = [s \in Slots |-> IF s = 1 THEN NewScan("startup") ELSE IdleScan]
    /\ writer = 0
    /\ q = IdleQ

NextCrawl ==
    \/ CronTrigger
    \/ \E s \in Slots, out \in {"beginfail", "fail", "fail2"} : ScanDelete(s, out, << >>)
    \/ \E s \in Slots, walk \in CrawlWalks : SameTree(walk) /\ ScanDelete(s, "ok", walk)
    \/ \E s \in Slots, out \in {"ok", "pathfail", "filefail"} : ScanVisit(s, out)
    \/ \E s \in Slots, ok \in BOOLEAN : ScanCommit(s, ok)
    \/ \E s \in Slots : ScanDone(s)

SpecCrawl == InitCrawl /\ [][NextCrawl]_vars

\* ---------------------------------------------------------------- claims
Items(body) == { body.items[i] : i \in DOMAIN body.items }
IsSubstring(T, F) ==
    \E i \in 1..(Len(F) - Len(T) + 1) : SubSeq(F, i, i + Len(T) - 1) = T
Scanning == { s \in Slots : scan[s].pc # "idle" }
RebuildFailed == proc = "down" /\ exit.cause \in {"rebuild", "commit"}
Crawlable(e) == ~e.err /\ e.kind = "file"
Visited(walk) == { e \in Range(walk) : Crawlable(e) }
Tuple(e) ==
    [path |-> e.dir, filename |-> e.name, size |-> e.size,
     create_time |-> [rfc3339 |-> e.mtime.sec]]
FileTuples(db) ==
    { [path |-> fp[2].path, filename |-> fp[1].filename, size |-> fp[1].size,
       create_time |-> fp[1].create_time] :
        fp \in { x \in db.files \X db.paths : x[1].path_id = x[2].id } }
PathsOf(db) == { p.path : p \in db.paths }

\* C1: after a rebuild that hit a Store write failure (at the delete, at a
\* directory or file insert, at the commit) the process has rolled back and
\* sql.db holds exactly the records it held before the rebuild's transaction,
\* and no file record without its directory record.
C1_AbortRestoresPrior ==
    RebuildFailed => (store = exit.pre /\ store = gen /\ Orphans(store) = {})

\* C1 witness: a rebuild failed after at least one file insert, over a prior
\* generation that holds files.
C1_Witness ==
    /\ RebuildFailed
    /\ exit.cause = "rebuild"
    /\ exit.inTx
    /\ exit.n >= 1
    /\ exit.pre.files # {}

\* C2: a query answered 200 returns the rows of one committed generation,
\* the one committed when its statement started: all of its matching rows,
\* or, when the iteration was cut short, some of them.
C2_OneGeneration ==
    (q.pc = "responded" /\ q.status = StatusOK) =>
        LET full == { ScanRow(r) : r \in SelectFiles(q.snap, q.key) }
        IN  IF q.failed THEN Items(q.body) \subseteq full ELSE Items(q.body) = full

\* C2 witness: a query is answered with rows of the old generation while a
\* rebuild has cleared the tables and inserted files and has not committed.
C2_Witness ==
    /\ q.pc = "responded"
    /\ q.status = StatusOK
    /\ ~q.failed
    /\ Items(q.body) # {}
    /\ writer # 0
    /\ scan[writer].n >= 1
    /\ scan[writer].pre = q.snap
    /\ scan[writer].work # q.snap

\* C3: at most one rebuild is running at any time.
C3_AtMostOneScanning == Cardinality(Scanning) <= 1

\* C4: a scheduled rebuild that fails with a Store write error does not end
\* the process.
C4_ScheduledFailureKeepsProcess ==
    ~(RebuildFailed /\ exit.caller = "cron")

\* C5: when the process is killed inside a rebuild's transaction, sql.db as
\* the next start finds it holds the prior generation's records.
C5_CrashKeepsPrior ==
    (proc = "down" /\ exit.cause = "crash" /\ exit.inTx) =>
        (store = exit.pre /\ store = gen /\ Orphans(store) = {})

\* C5 witness: the process was killed after the delete and at least one file
\* insert of a rebuild over a generation that holds files.
C5_Witness ==
    /\ proc = "down"
    /\ exit.cause = "crash"
    /\ exit.inTx
    /\ exit.n >= 1
    /\ exit.pre.files # {}

\* C6: queries are served only once a rebuild has committed a generation.
C6_ServingHasGeneration == proc = "serving" => hasGen

\* C7: when sql.db existed at startup, until the first scheduled trigger no
\* rebuild runs, no transaction holds the write lock and sql.db holds what
\* it held at startup.
C7_NoCrawlBeforeTrigger ==
    (proc # "down" /\ life.existed /\ ~life.triggered) =>
        /\ \A s \in Slots : scan[s] = IdleScan
        /\ writer = 0
        /\ store = life.startStore

\* C7 witness: such a process answers a query from the records it found.
C7_Witness ==
    /\ proc = "serving"
    /\ life.existed
    /\ ~life.triggered
    /\ store.files # {}
    /\ q.pc = "responded"
    /\ q.status = StatusOK
    /\ Items(q.body) # {}

\* C8: the response is 400 exactly when key is missing or empty, type is
\* missing or empty, or type is not "file"; any other request whose Store
\* reads succeed is answered 200.
C8_BadRequestExactly ==
    q.pc = "responded" =>
        LET keyBad == q.req.key = << >> \/ q.req.key = << << >> >>
            typeBad == q.req.type = << >> \/ q.req.type # <<"file">>
        IN  /\ (keyBad \/ typeBad) <=> (q.status = StatusBadRequest)
            /\ (~keyBad /\ ~typeBad /\ ~q.failed) => q.status = StatusOK

\* C8 witness: a request with a key and type=dir has been answered 400.
C8_Witness ==
    /\ q.pc = "responded"
    /\ q.req = [key |-> << <<"a">> >>, type |-> <<"dir">>]
    /\ q.status = StatusBadRequest

\* C9: the file named F is in the result of the query for T exactly when T
\* is a substring of F.
C9_SubstringExactly ==
    (q.pc = "responded" /\ q.status = StatusOK /\ ~q.failed) =>
        \A f \in store.files :
            IsSubstring(q.key, f.filename)
                <=> (\E r \in Items(q.body) : r.filename = f.filename)

\* C10: a query whose Store read failed is answered with an error status.
C10_ReadFailureIsError ==
    (q.pc = "responded" /\ q.failed) => q.status >= StatusBadRequest

\* C11: a valid query whose term matches no indexed filename is answered
\* 200 with a body that is an empty JSON array.
C11_NoMatchIsEmptyArray ==
    (/\ q.pc = "responded"
     /\ q.status = StatusOK
     /\ ~q.failed
     /\ SelectFiles(q.snap, q.key) = {}) =>
        q.body = [json |-> "array", items |-> << >>]

\* C12: once a rebuild has committed, sql.db holds exactly one file record
\* per regular file the last committed rebuild's Walk visited, with its
\* directory, base name, size and modification time (to the second), one
\* directory record per directory of those files, and nothing else: no
\* record of an earlier generation.
C12_ExactlyLastCrawl ==
    hasGen =>
        /\ FileTuples(store) = { Tuple(e) : e \in Visited(last.walk) }
        /\ Cardinality(store.files) = Cardinality(Visited(last.walk))
        /\ PathsOf(store) = { e.dir : e \in Visited(last.walk) }
        /\ Cardinality(store.paths) = Cardinality(PathsOf(store))

\* C12 witness: a query answered from an earlier generation with files, and
\* a rebuild over a smaller tree has committed since.
C12_Witness ==
    /\ hasGen
    /\ q.pc = "responded"
    /\ q.snap.files # {}
    /\ store.files # {}
    /\ Cardinality(store.files) < Cardinality(q.snap.files)
    /\ Cardinality(store.paths) < Cardinality(q.snap.paths)

\* C13: a rebuild that commits after crawling the tree of the generation
\* before it leaves the same set of (path, filename, size, timestamp) tuples
\* in sql.db, whatever order its Walk visited the files in.
C13_RescanSameTuples ==
    [][\A s \in Slots :
          (/\ scan[s].pc = "walk"
           /\ scan'[s].pc = "send"
           /\ hasGen
           /\ Range(scan[s].walk) = Range(last.walk))
              => FileTuples(store') = FileTuples(store)]_vars

\* C13 witness: the last commit crawled the tree of the commit before it in
\* another order, with files in two directories.
C13_Witness ==
    /\ last.rescan
    /\ Cardinality(store.paths) >= 2
    /\ Cardinality(store.files) >= 3

C15_NoDanglingPathId ==
    /\ Orphans(store) = {}
    /\ Orphans(ReadView(store, Uncommitted)) = {}
    /\ \A s \in Slots : Orphans(scan[s].work) = {}

\* C15 witness: a query reads while a later rebuild, over a generation that
\* holds files, has inserted two files of one directory.
C15_Witness ==
    /\ q.pc = "rows"
    /\ q.busy
    /\ writer # 0
    /\ scan[writer].pre.files # {}
    /\ Cardinality(scan[writer].work.files) >= 2
    /\ Cardinality(scan[writer].work.paths) = 1

\* C16: inside a rebuild's transaction the path cache holds exactly the
\* directories inserted so far by this rebuild, each with the id of its one
\* record, and every file inserted so far carries the cached id of its
\* directory; the cache is empty until the rebuild's first insert, and the
\* directory paths of a committed generation are unique.
C16_CacheIsThisRebuilds ==
    /\ Cardinality(PathsOf(store)) = Cardinality(store.paths)
    /\ \A s \in Slots :
          LET w == scan[s]
              seen == { w.walk[i] : i \in 1..(Len(w.walk) - Len(w.todo)) }
          IN  /\ w.pc \in {"idle", "begin", "send"} => w.cache = EmptyCache
              /\ w.pc = "walk" =>
                    /\ DOMAIN w.cache = PathsOf(w.work)
                    /\ Cardinality(w.work.paths) = Cardinality(PathsOf(w.work))
                    /\ \A d \in DOMAIN w.cache :
                          [id |-> w.cache[d], path |-> d] \in w.work.paths
                    /\ \A e \in seen : Crawlable(e) =>
                          \E f \in w.work.files :
                              /\ f.filename = e.name
                              /\ f.size = e.size
                              /\ f.path_id = w.cache[e.dir]

\* C16 witness: a rebuild after a committed generation has inserted two
\* directories and more files than directories.
C16_Witness ==
    /\ hasGen
    /\ writer # 0
    /\ Cardinality(DOMAIN scan[writer].cache) >= 2
    /\ Cardinality(scan[writer].work.files) > Cardinality(scan[writer].work.paths)

\* C17: the Walk goes on past an entry whose metadata cannot be read, and
\* the generation then committed has the record of every readable regular
\* file of the Walk and no record of an unreadable entry.
C17_UnreadableSkipped ==
    /\ \A s \in Slots :
          (scan[s].pc = "walk" /\ writer = s /\ scan[s].todo # << >>
              /\ Head(scan[s].todo).err) =>
            /\ ENABLED ScanVisit(s, "ok")
            /\ ~ENABLED (ScanVisit(s, "pathfail") \/ ScanVisit(s, "filefail"))
    /\ hasGen =>
          \A e \in Range(last.walk) :
              /\ e.err => ~\E t \in FileTuples(store) :
                              t.path = e.dir /\ t.filename = e.name
              /\ Crawlable(e) => Tuple(e) \in FileTuples(store)

\* C17 witness: a rebuild has committed after a Walk with an unreadable
\* entry between two regular files.
C17_Witness ==
    /\ hasGen
    /\ Len(last.walk) >= 3
    /\ Crawlable(last.walk[1])
    /\ last.walk[2].err
    /\ Crawlable(last.walk[3])
    /\ Cardinality(store.files) >= 2

\* C18: in a process started without sql.db, while the initial rebuild runs
\* no scheduled rebuild has been triggered, the initial rebuild is the only
\* one and no query has been received; and once that process serves, before
\* any trigger, a generation has been committed and is what sql.db holds.
C18_ServeAfterInitialRebuild ==
    /\ proc = "init" =>
          /\ q = IdleQ
          /\ ~life.triggered
          /\ Scanning = {1}
          /\ scan[1].caller = "startup"
    /\ (proc = "serving" /\ ~life.existed /\ ~life.triggered) =>
          /\ hasGen
          /\ store = gen
          /\ Scanning = {}

\* C18 witness: the process started without sql.db answers its first query
\* with rows of the generation the initial rebuild committed.
C18_Witness ==
    /\ proc = "serving"
    /\ ~life.existed
    /\ ~life.triggered
    /\ q.pc = "responded"
    /\ q.status = StatusOK
    /\ Items(q.body) # {}
    /\ q.snap = store

\* C19: a scanAndSave that has committed can always hand its value to its
\* caller, which is receiving; one inside its transaction can always go on
\* (visit the next entry or commit); main waits at startup only while its
\* scan is running; and a scan that is over has left nothing behind.
C19_ScanEndsAndIsReceived ==
    /\ \A s \in Slots :
          /\ scan[s].pc = "send" => ENABLED ScanDone(s)
          /\ scan[s].pc = "walk" =>
                /\ writer = s
                /\ ENABLED (ScanVisit(s, "ok") \/ ScanCommit(s, TRUE))
          /\ scan[s].pc = "begin" =>
                ENABLED (\E out \in {"beginfail", "ok", "fail"} :
                            ScanDelete(s, out, << >>))
          /\ scan[s].pc = "idle" => scan[s] = IdleScan
    /\ proc = "init" => scan[1].pc # "idle"
    /\ proc = "down" => (Scanning = {} /\ writer = 0)

\* C19 witness: a scheduled rebuild has committed and its job has received
\* the value: the process serves, triggered, with no rebuild running.
C19_Witness ==
    /\ proc = "serving"
    /\ life.triggered
    /\ Scanning = {}
    /\ writer = 0
    /\ store.files # {}
    /\ q = IdleQ

====
